---- MODULE Spec2Model ----
(***************************************************************************)
(* A model of mididings' JACK backend (src/trunk/src/backend_jack.cc):     *)
(* the realtime process callback, the application-facing operations        *)
(* input_event / output_event / drop_input, the constructor and the        *)
(* destructor, and the wire codec jack_to_midi_event / midi_event_to_jack. *)
(*                                                                         *)
(* The ring buffer class (_in_rb, _out_rb), Config::MAX_JACK_EVENTS and    *)
(* the MidiEvent struct are declared in headers that are not part of the   *)
(* source at hand; they are modelled from the design document.             *)
(***************************************************************************)
EXTENDS Integers, Sequences, FiniteSets, TLC

(***************************************************************************)
(* Bounds of the model.                                                    *)
(***************************************************************************)
\* Config::MAX_JACK_EVENTS, the capacity of both ring buffers; its value is
\* set in config.hh, which is not at hand, so it is a bound here.
MaxJackEvents == 2
\* what the environment does in all: input events in the port buffers of
\* every block, calls of output_event and calls of drop_input
MaxEvents == 3
\* sample step of the codec's data bytes: every CodecStride-th byte is drawn
\* besides the edges
CodecStride == 16

(***************************************************************************)
(* Configuration: in_portnames.size() and out_portnames.size().            *)
(***************************************************************************)
NumInPorts == 2
NumOutPorts == 2

InPortIdx == 0 .. (NumInPorts - 1)
OutPortIdx == 0 .. (NumOutPorts - 1)

(***************************************************************************)
(* Integer helpers with C's semantics.                                     *)
(***************************************************************************)
\* conversion of an int to unsigned char
ToUChar(x) == x % 256

\* C's / and % on ints truncate toward zero
CDiv(a, b) == IF a >= 0 THEN a \div b ELSE -((-a) \div b)
CMod(a, b) == IF a >= 0 THEN a % b ELSE -((-a) % b)

RECURSIVE BitOr(_, _)
\* a | b on non-negative ints
BitOr(a, b) ==
    IF a = 0 THEN b
    ELSE IF b = 0 THEN a
    ELSE (IF (a % 2 = 1) \/ (b % 2 = 1) THEN 1 ELSE 0)
         + 2 * BitOr(a \div 2, b \div 2)

RECURSIVE BitAnd(_, _)
\* a & b on non-negative ints
BitAnd(a, b) ==
    IF a = 0 \/ b = 0 THEN 0
    ELSE (IF (a % 2 = 1) /\ (b % 2 = 1) THEN 1 ELSE 0)
         + 2 * BitAnd(a \div 2, b \div 2)

(***************************************************************************)
(* MidiEvent (midi_event.hh): type, port, channel and a payload that is    *)
(* note {note, velocity} or ctrl {param, value}.  A MIDI_EVENT_NONE event  *)
(* carries no payload.                                                     *)
(***************************************************************************)
MIDI_EVENT_NONE      == "NONE"
MIDI_EVENT_NOTEON    == "NOTEON"
MIDI_EVENT_NOTEOFF   == "NOTEOFF"
MIDI_EVENT_CTRL      == "CTRL"
MIDI_EVENT_PITCHBEND == "PITCHBEND"
MIDI_EVENT_PROGRAM   == "PROGRAM"

NoteEvent(type, port, channel, note, velocity) ==
    [type |-> type, port |-> port, channel |-> channel,
     note |-> [note |-> note, velocity |-> velocity]]

CtrlEvent(type, port, channel, param, value) ==
    [type |-> type, port |-> port, channel |-> channel,
     ctrl |-> [param |-> param, value |-> value]]

NoneEvent(port, channel) ==
    [type |-> MIDI_EVENT_NONE, port |-> port, channel |-> channel]

(***************************************************************************)
(* The wire codec.  data is the C array data[0..2], held as a sequence     *)
(* whose element i+1 is data[i].                                           *)
(***************************************************************************)
\* a pitch-bend decoding that leaves the offset out
PitchBendValueMutNoOffset(data) == BitOr(data[3] * 128, data[2])

\* a pitch-bend decoding that takes the data bytes in the other order
PitchBendValueMutSwapped(data) == BitOr(data[2] * 128, data[3]) - 8192

\* (data[2] << 7 | data[1]) - 8192
PitchBendValue(data) == BitOr(data[3] * 128, data[2]) - 8192

\* a program decoding that takes the last byte of a three-byte message
ProgramValueMutThird(data) == data[3]

\* ev.ctrl.value = data[1] of a program change
ProgramValue(data) == data[2]

\* a channel taken from the status byte without the mask
ChannelOfMutNoMask(data) == data[1]

\* ev.channel = data[0] & 0x0f
ChannelOf(data) == BitAnd(data[1], 15)

\* BackendJack::jack_to_midi_event: data = jack_ev.buffer
jack_to_midi_event(data, port) ==
    LET channel == ChannelOf(data)
        hi == BitAnd(data[1], 240)
    IN  CASE hi = 144 -> NoteEvent(MIDI_EVENT_NOTEON, port, channel, data[2], data[3])
          [] hi = 128 -> NoteEvent(MIDI_EVENT_NOTEOFF, port, channel, data[2], data[3])
          [] hi = 176 -> CtrlEvent(MIDI_EVENT_CTRL, port, channel, data[2], data[3])
          [] hi = 224 -> CtrlEvent(MIDI_EVENT_PITCHBEND, port, channel, 0,
                                   PitchBendValue(data))
          [] hi = 192 -> CtrlEvent(MIDI_EVENT_PROGRAM, port, channel, 0, ProgramValue(data))
          [] OTHER    -> NoneEvent(port, channel)

\* an encoder whose default case emits the status byte alone
EncodeBytesMutDefaultLen(ev, data0) ==
    CASE ev.type = MIDI_EVENT_NOTEON ->
           [len |-> 3, data |-> <<144, ToUChar(ev.note.note), ToUChar(ev.note.velocity)>>]
      [] ev.type = MIDI_EVENT_NOTEOFF ->
           [len |-> 3, data |-> <<128, ToUChar(ev.note.note), ToUChar(ev.note.velocity)>>]
      [] ev.type = MIDI_EVENT_CTRL ->
           [len |-> 3, data |-> <<176, ToUChar(ev.ctrl.param), ToUChar(ev.ctrl.value)>>]
      [] ev.type = MIDI_EVENT_PITCHBEND ->
           [len |-> 3, data |-> <<224, ToUChar(CMod(ev.ctrl.value + 8192, 128)),
                                  ToUChar(CDiv(ev.ctrl.value + 8192, 128))>>]
      [] ev.type = MIDI_EVENT_PROGRAM ->
           [len |-> 2, data |-> <<192, ToUChar(ev.ctrl.value), data0[3]>>]
      [] OTHER ->
           [len |-> 1, data |-> data0]

\* the bytes midi_event_to_jack stores before data[0] |= ev.channel; data0 is
\* what the caller's array held on entry (it is not initialised by process)
EncodeBytes(ev, data0) ==
    CASE ev.type = MIDI_EVENT_NOTEON ->
           [len |-> 3, data |-> <<144, ToUChar(ev.note.note), ToUChar(ev.note.velocity)>>]
      [] ev.type = MIDI_EVENT_NOTEOFF ->
           [len |-> 3, data |-> <<128, ToUChar(ev.note.note), ToUChar(ev.note.velocity)>>]
      [] ev.type = MIDI_EVENT_CTRL ->
           [len |-> 3, data |-> <<176, ToUChar(ev.ctrl.param), ToUChar(ev.ctrl.value)>>]
      [] ev.type = MIDI_EVENT_PITCHBEND ->
           [len |-> 3, data |-> <<224, ToUChar(CMod(ev.ctrl.value + 8192, 128)),
                                  ToUChar(CDiv(ev.ctrl.value + 8192, 128))>>]
      [] ev.type = MIDI_EVENT_PROGRAM ->
           [len |-> 2, data |-> <<192, ToUChar(ev.ctrl.value), data0[3]>>]
      [] OTHER ->
           [len |-> 0, data |-> data0]

\* BackendJack::midi_event_to_jack: the out-parameters data, len and port
midi_event_to_jack(ev, data0) ==
    LET e == EncodeBytes(ev, data0)
    IN  [len  |-> e.len,
         data |-> <<ToUChar(BitOr(e.data[1], ToUChar(ev.channel))), e.data[2], e.data[3]>>,
         port |-> ev.port]

(***************************************************************************)
(* The ring buffer of MidiEvents (util ring buffer header, not at hand):   *)
(* a bounded FIFO of capacity MaxJackEvents with one producer and one      *)
(* consumer.  The buffered, unread elements are held as a sequence, the    *)
(* oldest first.                                                           *)
(***************************************************************************)
RbNew == <<>>
read_space(rb) == Len(rb)
\* write: a full queue drops the element
RbWrite(rb, e) == IF Len(rb) < MaxJackEvents THEN Append(rb, e) ELSE rb
\* whether write(e) stores e
RbAccepts(rb) == Len(rb) < MaxJackEvents
\* read: the oldest element, and the queue without it
RbFront(rb) == Head(rb)
RbRead(rb) == IF Len(rb) > 0 THEN Tail(rb) ELSE rb
\* reset: the cursors are made equal, nothing is buffered
RbReset(rb) == <<>>

(***************************************************************************)
(* State.                                                                  *)
(***************************************************************************)
VARIABLES
    \* the constructor
    ctorPc,       \* the constructor's position
    ctorN,        \* its loop variable n
    client,       \* _client: "null", "open", "active", "closed"
    callbackSet,  \* jack_set_process_callback was called
    in_ports,     \* _in_ports: handle per input port, "NULL" or "port"
    out_ports,    \* _out_ports
    error,        \* the BackendError thrown, or "none"
    ctorLog,      \* history: the library calls the constructor made
    \* shared between the threads
    in_rb,        \* _in_rb
    out_rb,       \* _out_rb
    mutex,        \* _mutex: "free" or its owner
    \* the realtime thread, in process()
    rtPc,         \* position of the callback
    rtN,          \* loop variable n
    rtC,          \* loop variable c
    num_events,   \* per input port, the event count of this block's buffer
    blk,          \* history: completed invocations that handled an event
    rtBusy,       \* history: this invocation has handled an event
    offered,      \* input events the port buffers have held so far
    outBuf,       \* per output port, the events written into its block buffer
    oob,          \* history: process indexed _out_ports out of its bounds
    notified,     \* history: per input port, the calls of notify_one in this block
    wrote,        \* history: per input port, an event of this block was stored
    \* the application thread
    appPc,        \* position of the application thread
    ev,           \* what the last input_event returned
    \* history of the queues
    nWritten,     \* events process stored in _in_rb
    dropMark,     \* events stored in _in_rb before the last drop_input
    freshDrop,    \* drop_input has run with no callback running, and nothing
                  \* was stored in _in_rb since
    dropRaced,    \* drop_input has run while the callback was running
    nDrops,       \* calls of drop_input so far
    sent,         \* per call of output_event, in order: the event and its fate
    \* the codec under test
    cPc,          \* "idle", "encode", "decode", "done"
    cev,          \* the event it is given
    cjack,        \* what midi_event_to_jack made of cev
    cdec,         \* what jack_to_midi_event made of cjack
    \* the inbound queue seen at the level of its cursors
    rb_buf,       \* the slots: the number of the event stored there, 0 for none
    rb_read,      \* the read cursor
    rb_write,     \* the write cursor
    wPc,          \* position of the callback inside write: "idle", "store", "publish"
    wCur,         \* the write cursor as write loaded it
    rPc,          \* position of the application thread: "idle", "reset"
    rFirst,       \* the cursor reset stored first: "read" or "write"
    raceOffered,  \* history: calls of write so far
    raceDrops,    \* history: calls of drop_input so far
    raceLive,     \* history: events written and not yet read or discarded
    raceRet       \* history: the events input_event returned, in order

bridgeVars == <<ctorPc, ctorN, client, callbackSet, in_ports, out_ports, error, ctorLog,
                in_rb, out_rb, mutex, rtPc, rtN, rtC, num_events, blk, rtBusy, offered,
                outBuf, oob, notified, wrote, appPc, ev, nWritten, dropMark, freshDrop, dropRaced, nDrops, sent>>
codecVars == <<cPc, cev, cjack, cdec>>
raceVars == <<rb_buf, rb_read, rb_write, wPc, wCur, rPc, rFirst, raceOffered, raceDrops,
              raceLive, raceRet>>
vars == <<bridgeVars, codecVars, raceVars>>

ctorVars == <<ctorPc, ctorN, client, callbackSet, in_ports, out_ports, error, ctorLog>>
notifyHist == <<notified, wrote>>
rtVars == <<rtPc, rtN, rtC, num_events, blk, rtBusy, offered, outBuf, oob, notifyHist>>
inHist == <<nWritten, dropMark, freshDrop, dropRaced, nDrops>>

\* the value of input_event's result before any call
NoEntry == [seq |-> 0]

(***************************************************************************)
(* The constructor and the destructor.                                     *)
(***************************************************************************)
BridgeInit ==
    /\ ctorPc = "open"
    /\ ctorN = 0
    /\ client = "null"
    /\ callbackSet = FALSE
    /\ in_ports = [n \in InPortIdx |-> "NULL"]
    /\ out_ports = [n \in OutPortIdx |-> "NULL"]
    /\ error = "none"
    /\ ctorLog = <<>>
    /\ in_rb = RbNew
    /\ out_rb = RbNew
    /\ mutex = "free"
    /\ rtPc = "idle"
    /\ rtN = 0
    /\ rtC = 0
    /\ num_events = [n \in InPortIdx |-> 0]
    /\ blk = 0
    /\ rtBusy = FALSE
    /\ offered = 0
    /\ outBuf = [n \in OutPortIdx |-> <<>>]
    /\ oob = FALSE
    /\ notified = [n \in InPortIdx |-> 0]
    /\ wrote = [n \in InPortIdx |-> FALSE]
    /\ appPc = "idle"
    /\ ev = NoEntry
    /\ nWritten = 0
    /\ dropMark = 0
    /\ freshDrop = FALSE
    /\ dropRaced = FALSE
    /\ nDrops = 0
    /\ sent = <<>>

\* a BackendError leaves the constructor: the object never existed, its
\* destructor does not run
Throw(msg) ==
    /\ error' = msg
    /\ ctorPc' = "failed"

\* jack_client_open
CtorOpen ==
    /\ ctorPc = "open"
    /\ ctorLog' = Append(ctorLog, "open")
    /\ \E ok \in BOOLEAN :
         IF ok
         THEN /\ client' = "open"
              /\ ctorPc' = "setcb"
              /\ error' = error
         ELSE /\ client' = client
              /\ Throw("can't connect to jack server")
    /\ UNCHANGED <<ctorN, callbackSet, in_ports, out_ports>>

\* jack_set_process_callback
CtorSetCallback ==
    /\ ctorPc = "setcb"
    /\ ctorLog' = Append(ctorLog, "setcb")
    /\ callbackSet' = TRUE
    /\ ctorPc' = "in_reg"
    /\ ctorN' = 0
    /\ UNCHANGED <<client, in_ports, out_ports, error>>

\* an input port loop that goes on after a NULL handle
CtorRegisterInMutNoCheck ==
    /\ ctorPc = "in_reg"
    /\ ctorLog' = Append(ctorLog, "in")
    /\ \E h \in {"NULL", "port"} :
         in_ports' = [in_ports EXCEPT ![ctorN] = h]
    /\ error' = error
    /\ IF ctorN + 1 < NumInPorts
       THEN ctorN' = ctorN + 1 /\ ctorPc' = ctorPc
       ELSE ctorN' = 0 /\ ctorPc' = "out_reg"
    /\ UNCHANGED <<client, callbackSet, out_ports>>

\* one turn of the input port loop
CtorRegisterIn ==
    /\ ctorPc = "in_reg"
    /\ ctorLog' = Append(ctorLog, "in")
    /\ \E h \in {"NULL", "port"} :
         /\ in_ports' = [in_ports EXCEPT ![ctorN] = h]
         /\ IF h = "NULL"
            THEN /\ Throw("error creating input port")
                 /\ ctorN' = ctorN
            ELSE /\ error' = error
                 /\ IF ctorN + 1 < NumInPorts
                    THEN ctorN' = ctorN + 1 /\ ctorPc' = ctorPc
                    ELSE ctorN' = 0 /\ ctorPc' = "out_reg"
    /\ UNCHANGED <<client, callbackSet, out_ports>>

\* one turn of the output port loop
CtorRegisterOut ==
    /\ ctorPc = "out_reg"
    /\ ctorLog' = Append(ctorLog, "out")
    /\ \E h \in {"NULL", "port"} :
         /\ out_ports' = [out_ports EXCEPT ![ctorN] = h]
         /\ IF h = "NULL"
            THEN /\ Throw("error creating output port")
                 /\ ctorN' = ctorN
            ELSE /\ error' = error
                 /\ IF ctorN + 1 < NumOutPorts
                    THEN ctorN' = ctorN + 1 /\ ctorPc' = ctorPc
                    ELSE ctorN' = 0 /\ ctorPc' = "activate"
    /\ UNCHANGED <<client, callbackSet, in_ports>>

\* jack_activate
CtorActivate ==
    /\ ctorPc = "activate"
    /\ ctorLog' = Append(ctorLog, "activate")
    /\ \E ok \in BOOLEAN :
         IF ok
         THEN /\ client' = "active"
              /\ ctorPc' = "done"
              /\ error' = error
         ELSE /\ client' = client
              /\ Throw("can't activate client")
    /\ UNCHANGED <<ctorN, callbackSet, in_ports, out_ports>>

Constructor ==
    /\ \/ CtorOpen
       \/ CtorSetCallback
       \/ CtorRegisterIn
       \/ CtorRegisterOut
       \/ CtorActivate
    /\ UNCHANGED <<in_rb, out_rb, mutex, rtVars, appPc, ev, inHist, sent, codecVars, raceVars>>

\* ~BackendJack, of a constructed object: jack_deactivate returns once the
\* callback is not running
DtorDeactivate ==
    /\ ctorPc = "done"
    /\ appPc = "idle"
    /\ rtPc = "idle"
    /\ client' = "open"
    /\ appPc' = "dtor_close"
    /\ UNCHANGED <<ctorPc, ctorN, callbackSet, in_ports, out_ports, error, ctorLog,
                   in_rb, out_rb, mutex, rtVars, ev, inHist, sent, codecVars, raceVars>>

\* jack_client_close
DtorClose ==
    /\ appPc = "dtor_close"
    /\ client' = "closed"
    /\ appPc' = "gone"
    /\ UNCHANGED <<ctorPc, ctorN, callbackSet, in_ports, out_ports, error, ctorLog,
                   in_rb, out_rb, mutex, rtVars, ev, inHist, sent, codecVars, raceVars>>

(***************************************************************************)
(* The realtime thread: BackendJack::process, one invocation per block.    *)
(***************************************************************************)
\* the raw message at index c of input port n's block buffer
InputMsg(n, c) ==
    LET msgs == << <<144, 60, 100>>, <<160, 1, 2>>, <<227, 0, 64>>,
                   <<177, 7, 127>>, <<201, 5, 0>>, <<128, 60, 0>> >>
    IN  msgs[((n * 4 + c) % 6) + 1]

RECURSIVE SumUpTo(_, _)
\* cnt[0] + ... + cnt[n]
SumUpTo(cnt, n) == IF n < 0 THEN 0 ELSE cnt[n] + SumUpTo(cnt, n - 1)

\* the choices of jack_midi_get_event_count for the ports of one block
EventCounts ==
    {cnt \in [InPortIdx -> 0 .. (MaxEvents - offered - Len(sent) - nDrops)] :
       SumUpTo(cnt, NumInPorts - 1) <= MaxEvents - offered - Len(sent) - nDrops}

\* the callback is invoked, once per block, while the client is active
ProcessBegin ==
    /\ client = "active"
    /\ rtPc = "idle"
    /\ appPc \notin {"dtor_close", "gone"}
    /\ \E cnt \in EventCounts :
         /\ num_events' = cnt
         /\ offered' = offered + SumUpTo(cnt, NumInPorts - 1)
         /\ rtBusy' = (SumUpTo(cnt, NumInPorts - 1) # 0)
    /\ rtPc' = "in"
    /\ rtN' = 0
    /\ rtC' = 0
    /\ notified' = [n \in InPortIdx |-> 0]
    /\ wrote' = [n \in InPortIdx |-> FALSE]
    /\ UNCHANGED <<ctorVars, in_rb, out_rb, mutex, blk, outBuf, oob, appPc, ev,
                   inHist, sent, codecVars, raceVars>>

\* a callback that walks a port's events from the last to the first
InEntryMutReverse(n, c) ==
    [ev  |-> jack_to_midi_event(InputMsg(n, num_events[n] - 1 - c), n),
     seq |-> nWritten + 1,
     src |-> <<blk, n, num_events[n] - 1 - c>>]

\* the element process stores for the event at index c of port n
InEntry(n, c) ==
    [ev  |-> jack_to_midi_event(InputMsg(n, c), n),
     seq |-> nWritten + 1,
     src |-> <<blk, n, c>>]

\* one turn of the loop over a port's events: decode, _in_rb.write(ev)
ProcessWriteMutOverwrite ==
    /\ rtPc = "in"
    /\ rtC < num_events[rtN]
    /\ in_rb' = IF RbAccepts(in_rb)
                THEN RbWrite(in_rb, InEntry(rtN, rtC))
                ELSE RbWrite(RbRead(in_rb), InEntry(rtN, rtC))
    /\ nWritten' = nWritten + 1
    /\ freshDrop' = FALSE
    /\ rtC' = rtC + 1
    /\ wrote' = [wrote EXCEPT ![rtN] = @ \/ RbAccepts(in_rb)]
    /\ UNCHANGED <<ctorVars, out_rb, mutex, rtPc, rtN, num_events, blk, rtBusy, offered, outBuf, oob,
                   notified,
                   appPc, ev, dropMark, dropRaced, nDrops, sent, codecVars, raceVars>>

ProcessWrite ==
    /\ rtPc = "in"
    /\ rtC < num_events[rtN]
    /\ in_rb' = RbWrite(in_rb, InEntry(rtN, rtC))
    /\ nWritten' = IF RbAccepts(in_rb) THEN nWritten + 1 ELSE nWritten
    /\ freshDrop' = (freshDrop /\ ~RbAccepts(in_rb))
    /\ rtC' = rtC + 1
    /\ wrote' = [wrote EXCEPT ![rtN] = @ \/ RbAccepts(in_rb)]
    /\ UNCHANGED <<ctorVars, out_rb, mutex, rtPc, rtN, num_events, blk, rtBusy, offered, outBuf, oob,
                   notified,
                   appPc, ev, dropMark, dropRaced, nDrops, sent, codecVars, raceVars>>

\* _cond.notify_one(): a thread blocked in _cond.wait is made runnable;
\* with no thread blocked the call has no effect
NotifyOneMutLocked ==
    /\ mutex = "free"
    /\ appPc' = IF appPc = "ie_blocked" THEN "ie_wake" ELSE appPc
    /\ notified' = [notified EXCEPT ![rtN] = @ + 1]

NotifyOne ==
    /\ appPc' = IF appPc = "ie_blocked" THEN "ie_wake" ELSE appPc
    /\ notified' = [notified EXCEPT ![rtN] = @ + 1]

\* the end of a port's turn: if (num_events) notify_one; ++n
ProcessNotify ==
    /\ rtPc = "in"
    /\ rtC = num_events[rtN]
    /\ IF num_events[rtN] # 0 THEN NotifyOne ELSE UNCHANGED <<appPc, notified>>
    /\ wrote' = wrote
    /\ rtC' = 0
    /\ IF rtN + 1 < NumInPorts
       THEN rtN' = rtN + 1 /\ rtPc' = rtPc
       ELSE rtN' = 0 /\ rtPc' = "clear"
    /\ UNCHANGED <<ctorVars, in_rb, out_rb, mutex, num_events, blk, rtBusy, offered,
                   outBuf, oob, ev, inHist, sent, codecVars, raceVars>>

\* the loop over the output ports: jack_midi_clear_buffer
ProcessClear ==
    /\ rtPc = "clear"
    /\ outBuf' = [n \in OutPortIdx |-> <<>>]
    /\ rtPc' = "drain"
    /\ UNCHANGED <<ctorVars, in_rb, out_rb, mutex, rtN, rtC, num_events, blk, rtBusy,
                   offered, oob, notifyHist, appPc, ev, inHist, sent, codecVars, raceVars>>

\* what the uninitialised array data[3] may hold
StackBytes == {<<0, 0, 0>>, <<255, 255, 255>>}

\* jack_midi_event_write(port_buffer, 0, data, len)
PortEvent(e, enc) ==
    [time |-> 0, data |-> SubSeq(enc.data, 1, enc.len), id |-> e.id, blk |-> blk]

\* the next position of the callback after one turn of the drain loop
DrainNext == "drain"

\* one turn of while (_out_rb.read_space()): read, encode, write
ProcessDrain ==
    /\ rtPc = "drain"
    /\ read_space(out_rb) # 0
    /\ out_rb' = RbRead(out_rb)
    /\ LET e == RbFront(out_rb) IN
       \E data0 \in StackBytes :
         LET enc == midi_event_to_jack(e.ev, data0) IN
           IF enc.len = 0
           THEN /\ rtPc' = DrainNext
                /\ UNCHANGED <<outBuf, oob, sent>>
           ELSE IF enc.port \in OutPortIdx
           THEN /\ outBuf' = [outBuf EXCEPT ![enc.port] = Append(@, PortEvent(e, enc))]
                /\ sent' = [sent EXCEPT ![e.id].writes = @ + 1]
                /\ rtPc' = DrainNext
                /\ oob' = oob
           ELSE \* _out_ports[port] is read outside the vector: the handle is
                \* whatever lies there, and the write goes to some port buffer,
                \* to none, or the process dies
                /\ oob' = TRUE
                /\ sent' = sent
                /\ \/ outBuf' = outBuf /\ rtPc' = DrainNext
                   \/ \E q \in OutPortIdx :
                        /\ outBuf' = [outBuf EXCEPT ![q] = Append(@, PortEvent(e, enc))]
                        /\ rtPc' = DrainNext
                   \/ outBuf' = outBuf /\ rtPc' = "crashed"
    /\ rtBusy' = (rtPc' # "idle" /\ (rtBusy \/ RbFront(out_rb).id # 0))
    /\ blk' = IF rtPc' = "idle" THEN blk + 1 ELSE blk
    /\ UNCHANGED <<ctorVars, in_rb, mutex, rtN, rtC, num_events, offered, notifyHist,
                   appPc, ev, inHist, codecVars, raceVars>>

\* the drain loop finds the queue empty: return 0
ProcessReturn ==
    /\ rtPc = "drain"
    /\ read_space(out_rb) = 0
    /\ rtPc' = "idle"
    /\ rtBusy' = FALSE
    /\ blk' = IF rtBusy THEN blk + 1 ELSE blk
    /\ UNCHANGED <<ctorVars, in_rb, out_rb, mutex, rtN, rtC, num_events, offered,
                   outBuf, oob, notifyHist, appPc, ev, inHist, sent, codecVars, raceVars>>

Process ==
    \/ ProcessBegin
    \/ ProcessWrite
    \/ ProcessNotify
    \/ ProcessClear
    \/ ProcessDrain
    \/ ProcessReturn

(***************************************************************************)
(* The application thread.                                                 *)
(***************************************************************************)
\* the bridge is constructed and the process runs
Alive == ctorPc = "done" /\ rtPc # "crashed"

\* input_event is called
InputEventCall ==
    /\ Alive
    /\ appPc = "idle"
    /\ appPc' = "ie_check"
    /\ UNCHANGED <<ctorVars, in_rb, out_rb, mutex, rtVars, ev, inHist, sent, codecVars, raceVars>>

\* while (!_in_rb.read_space())
IeCheck ==
    /\ Alive
    /\ appPc = "ie_check"
    /\ appPc' = IF read_space(in_rb) = 0 THEN "ie_lock" ELSE "ie_read"
    /\ UNCHANGED <<ctorVars, in_rb, out_rb, mutex, rtVars, ev, inHist, sent, codecVars, raceVars>>

\* boost::mutex::scoped_lock lock(_mutex)
IeLock ==
    /\ Alive
    /\ appPc = "ie_lock"
    /\ mutex = "free"
    /\ mutex' = "app"
    /\ appPc' = "ie_wait"
    /\ UNCHANGED <<ctorVars, in_rb, out_rb, rtVars, ev, inHist, sent, codecVars, raceVars>>

\* _cond.wait(lock): the mutex is released and the thread blocks, atomically
IeWait ==
    /\ Alive
    /\ appPc = "ie_wait"
    /\ mutex' = "free"
    /\ appPc' = "ie_blocked"
    /\ UNCHANGED <<ctorVars, in_rb, out_rb, rtVars, ev, inHist, sent, codecVars, raceVars>>

\* a condition wait may end without any notify
SpuriousWake ==
    /\ Alive
    /\ appPc = "ie_blocked"
    /\ appPc' = "ie_wake"
    /\ UNCHANGED <<ctorVars, in_rb, out_rb, mutex, rtVars, ev, inHist, sent, codecVars, raceVars>>

\* _cond.wait returns with the mutex held again
IeWake ==
    /\ Alive
    /\ appPc = "ie_wake"
    /\ mutex = "free"
    /\ mutex' = "app"
    /\ appPc' = "ie_unlock"
    /\ UNCHANGED <<ctorVars, in_rb, out_rb, rtVars, ev, inHist, sent, codecVars, raceVars>>

\* where input_event goes on after the wait
AfterWaitMutIf == "ie_read"

AfterWait == "ie_check"

\* the scoped_lock leaves its scope; the loop condition is evaluated again
IeUnlock ==
    /\ Alive
    /\ appPc = "ie_unlock"
    /\ mutex' = "free"
    /\ appPc' = AfterWait
    /\ UNCHANGED <<ctorVars, in_rb, out_rb, rtVars, ev, inHist, sent, codecVars, raceVars>>

\* _in_rb.read(ev); return.  A read of an empty queue leaves ev untouched.
IeRead ==
    /\ Alive
    /\ appPc = "ie_read"
    /\ ev' = IF read_space(in_rb) # 0 THEN RbFront(in_rb) ELSE ev
    /\ in_rb' = RbRead(in_rb)
    /\ appPc' = "idle"
    /\ UNCHANGED <<ctorVars, out_rb, mutex, rtVars, inHist, sent, codecVars, raceVars>>

input_event ==
    \/ InputEventCall
    \/ IeCheck
    \/ IeLock
    \/ IeWait
    \/ IeWake
    \/ IeUnlock
    \/ IeRead

\* the events the application passes to output_event
OutEvents ==
    {NoteEvent(MIDI_EVENT_NOTEON, p, 0, 60, 100) : p \in 0 .. NumOutPorts}
      \cup {NoneEvent(0, 0)}

\* output_event(ev): _out_rb.write(ev)
output_event ==
    /\ Alive
    /\ appPc = "idle"
    /\ offered + Len(sent) + nDrops < MaxEvents
    /\ \E e \in OutEvents :
         /\ out_rb' = RbWrite(out_rb, [ev |-> e, id |-> Len(sent) + 1])
         /\ sent' = Append(sent, [ev |-> e, accepted |-> RbAccepts(out_rb),
                                  enq |-> blk, writes |-> 0])
    /\ UNCHANGED <<ctorVars, in_rb, mutex, rtVars, appPc, ev, inHist, codecVars, raceVars>>

\* a drop_input that resets the other queue
drop_inputMutOther ==
    /\ Alive
    /\ appPc = "idle"
    /\ offered + Len(sent) + nDrops < MaxEvents
    /\ out_rb' = RbReset(out_rb)
    /\ dropMark' = nWritten
    /\ freshDrop' = (rtPc = "idle")
    /\ dropRaced' = (dropRaced \/ rtPc # "idle")
    /\ nDrops' = nDrops + 1
    /\ UNCHANGED <<ctorVars, in_rb, mutex, rtVars, appPc, ev, nWritten, sent, codecVars, raceVars>>

\* drop_input(): _in_rb.reset()
drop_input ==
    /\ Alive
    /\ appPc = "idle"
    /\ offered + Len(sent) + nDrops < MaxEvents
    /\ in_rb' = RbReset(in_rb)
    /\ dropMark' = nWritten
    /\ freshDrop' = (rtPc = "idle")
    /\ dropRaced' = (dropRaced \/ rtPc # "idle")
    /\ nDrops' = nDrops + 1
    /\ UNCHANGED <<ctorVars, out_rb, mutex, rtVars, appPc, ev, nWritten, sent, codecVars, raceVars>>

\* flush_output is called
FlushCall ==
    /\ Alive
    /\ appPc = "idle"
    /\ appPc' = "flush"
    /\ UNCHANGED <<ctorVars, in_rb, out_rb, mutex, rtVars, ev, inHist, sent, codecVars, raceVars>>

\* a flush_output that discards what is queued
FlushReturnMutReset ==
    /\ Alive
    /\ appPc = "flush"
    /\ appPc' = "idle"
    /\ out_rb' = RbReset(out_rb)
    /\ UNCHANGED <<ctorVars, in_rb, mutex, rtVars, ev, inHist, sent, codecVars, raceVars>>

\* flush_output(): the body is empty, the call returns
FlushReturn ==
    /\ Alive
    /\ appPc = "flush"
    /\ appPc' = "idle"
    /\ UNCHANGED <<ctorVars, in_rb, out_rb, mutex, rtVars, ev, inHist, sent, codecVars, raceVars>>

flush_output ==
    \/ FlushCall
    \/ FlushReturn

Destructor ==
    /\ rtPc # "crashed"
    /\ \/ DtorDeactivate
       \/ DtorClose

(***************************************************************************)
(* The bridge: the constructor, then both threads.                         *)
(***************************************************************************)
NoJack == [len |-> 0, data |-> <<0, 0, 0>>, port |-> 0]

CodecIdle ==
    /\ cPc = "idle"
    /\ cev = NoneEvent(0, 0)
    /\ cjack = NoJack
    /\ cdec = NoneEvent(0, 0)

\* the cursor-level view of the inbound queue is not in use
RaceIdle ==
    /\ rb_buf = [i \in 0 .. MaxJackEvents - 1 |-> 0]
    /\ rb_read = 0
    /\ rb_write = 0
    /\ wPc = "idle"
    /\ wCur = 0
    /\ rPc = "idle"
    /\ rFirst = "read"
    /\ raceOffered = 0
    /\ raceDrops = 0
    /\ raceLive = {}
    /\ raceRet = <<>>

Init ==
    /\ BridgeInit
    /\ CodecIdle
    /\ RaceIdle

Next ==
    \/ Constructor
    \/ Process
    \/ input_event
    \/ SpuriousWake
    \/ output_event
    \/ drop_input
    \/ flush_output
    \/ Destructor

Spec == Init /\ [][Next]_vars

(***************************************************************************)
(* The scheduling: the audio server invokes the callback block after block *)
(* and lets it run; the application thread, once inside input_event, is    *)
(* scheduled.  A condition wait is not bound to end without a notify.      *)
(***************************************************************************)
FairSpec ==
    /\ Spec
    /\ WF_vars(Process)
    /\ WF_vars(IeCheck \/ IeLock \/ IeWait \/ IeWake \/ IeUnlock \/ IeRead \/ FlushReturn)

(***************************************************************************)
(* An application that goes on calling output_event while the callback is *)
(* in its drain loop.  The calls beyond the                                *)
(* recorded ones are not entered in the history (id 0), and their event is *)
(* of a type midi_event_to_jack gives no length, so that neither the       *)
(* history nor the port buffers grow without bound.                        *)
(***************************************************************************)
output_eventUnrecorded ==
    /\ Alive
    /\ appPc = "idle"
    /\ rtPc = "drain"
    /\ out_rb' = RbWrite(out_rb, [ev |-> NoneEvent(0, 0), id |-> 0])
    /\ UNCHANGED <<ctorVars, in_rb, mutex, rtVars, appPc, ev, inHist, sent, codecVars, raceVars>>

BusyNext ==
    \/ Next
    \/ output_eventUnrecorded

\* the audio server lets a callback invocation run
BusySpec ==
    /\ Init
    /\ [][BusyNext]_vars
    /\ WF_vars(Process)

(***************************************************************************)
(* The codec on its own: an event is encoded, and what was encoded, if it  *)
(* has a length, is decoded.                                               *)
(***************************************************************************)
\* the data bytes drawn: the edges and every CodecStride-th value
ByteSamples == {b \in 0 .. 127 : b % CodecStride = 0 \/ b \in {1, 126, 127}}
ChannelSamples == {0, 5, 15}
\* ev.channel is an int: the channels, and values beyond them
AnyChannel == 0 .. 15 \cup {16, 32}
PortSamples == 0 .. NumOutPorts

\* the event under test: every type, with its fields in their ranges
CodecEvent(e) ==
    \E p \in PortSamples :
      \/ \E t \in {MIDI_EVENT_NOTEON, MIDI_EVENT_NOTEOFF}, ch \in AnyChannel,
            a \in ByteSamples, b \in ByteSamples :
           e = NoteEvent(t, p, ch, a, b)
      \/ \E ch \in 0 .. 15, a \in ByteSamples, b \in ByteSamples :
           e = CtrlEvent(MIDI_EVENT_CTRL, p, ch, a, b)
      \/ \E ch \in ChannelSamples, v \in (-8192) .. 8191 :
           e = CtrlEvent(MIDI_EVENT_PITCHBEND, p, ch, 0, v)
      \/ \E ch \in 0 .. 15, v \in 0 .. 127 :
           e = CtrlEvent(MIDI_EVENT_PROGRAM, p, ch, 0, v)
      \/ \E ch \in 0 .. 15 :
           e = NoneEvent(p, ch)

CodecInit ==
    /\ BridgeInit
    /\ CodecEvent(cev)
    /\ cjack = NoJack
    /\ cdec = NoneEvent(0, 0)
    /\ cPc = "encode"
    /\ RaceIdle

CodecEncode ==
    /\ cPc = "encode"
    /\ \E data0 \in StackBytes : cjack' = midi_event_to_jack(cev, data0)
    /\ cPc' = IF cjack'.len # 0 THEN "decode" ELSE "done"
    /\ UNCHANGED <<bridgeVars, cev, cdec, raceVars>>

CodecDecode ==
    /\ cPc = "decode"
    /\ cdec' = jack_to_midi_event(cjack.data, cjack.port)
    /\ cPc' = "done"
    /\ UNCHANGED <<bridgeVars, cev, cjack, raceVars>>

CodecNext ==
    \/ CodecEncode
    \/ CodecDecode

CodecSpec == CodecInit /\ [][CodecNext]_vars

(***************************************************************************)
(* The way of one raw message through the inbound side: the callback       *)
(* decodes the message it found in the buffer of input port n and stores   *)
(* the event, input_event returns it.  The message is any status byte with *)
(* sampled data bytes.                                                     *)
(***************************************************************************)
DecodeInit ==
    /\ BridgeInit
    /\ cPc = "raw"
    /\ cev = NoneEvent(0, 0)
    /\ cdec = NoneEvent(0, 0)
    /\ RaceIdle
    /\ \E s \in 0 .. 255, a \in ByteSamples, b \in ByteSamples, n \in InPortIdx :
         cjack = [len |-> 3, data |-> <<s, a, b>>, port |-> n]

\* MidiEvent ev = jack_to_midi_event(jack_ev, n)
DecodeRaw ==
    /\ cPc = "raw"
    /\ cdec' = jack_to_midi_event(cjack.data, cjack.port)
    /\ cPc' = "decoded"
    /\ UNCHANGED <<bridgeVars, cev, cjack, raceVars>>

\* _in_rb.write(ev)
DecodeStore ==
    /\ cPc = "decoded"
    /\ in_rb' = RbWrite(in_rb, [ev |-> cdec, seq |-> 1, src |-> <<0, cjack.port, 0>>])
    /\ nWritten' = 1
    /\ cPc' = "stored"
    /\ UNCHANGED <<ctorVars, out_rb, mutex, rtVars, appPc, ev, dropMark, freshDrop,
                   dropRaced, nDrops, sent, cev, cjack, cdec, raceVars>>

\* input_event: _in_rb.read(ev)
DecodeReturn ==
    /\ cPc = "stored"
    /\ ev' = RbFront(in_rb)
    /\ in_rb' = RbRead(in_rb)
    /\ cPc' = "returned"
    /\ UNCHANGED <<ctorVars, out_rb, mutex, rtVars, appPc, inHist, sent, cev, cjack, cdec,
                   raceVars>>

DecodeNext ==
    \/ DecodeRaw
    \/ DecodeStore
    \/ DecodeReturn

DecodeSpec == DecodeInit /\ [][DecodeNext]_vars

(***************************************************************************)
(* drop_input against the callback, at the level of the queue's cursors.   *)
(* The queue is a circular buffer of MaxJackEvents slots with a read and a *)
(* write cursor that only advance; the slot of cursor c is c % capacity.   *)
(* write loads the cursors, stores the element and then publishes the new  *)
(* write cursor; reset stores the same value, 0, into both cursors, in one *)
(* order or the other.  Events are numbered in the order of the calls of   *)
(* write.                                                                  *)
(***************************************************************************)
RingSlot(c) == c % MaxJackEvents

\* read_space()
RingReadSpace == rb_write - rb_read

\* the events between the cursors
RingBuffered == {rb_buf[RingSlot(c)] : c \in rb_read .. rb_write - 1}

\* write(event), first step: load the cursors; a full queue drops the event
RingWriteBegin ==
    /\ wPc = "idle"
    /\ raceOffered + raceDrops < MaxEvents
    /\ raceOffered' = raceOffered + 1
    /\ wCur' = rb_write
    /\ wPc' = IF rb_write - rb_read < MaxJackEvents THEN "store" ELSE "idle"
    /\ UNCHANGED <<rb_buf, rb_read, rb_write, rPc, rFirst, raceDrops, raceLive, raceRet>>

\* write(event), second step: store the element in the slot of the cursor
RingWriteStore ==
    /\ wPc = "store"
    /\ rb_buf' = [rb_buf EXCEPT ![RingSlot(wCur)] = raceOffered]
    /\ raceLive' = raceLive \cup {raceOffered}
    /\ wPc' = "publish"
    /\ UNCHANGED <<rb_read, rb_write, wCur, rPc, rFirst, raceOffered, raceDrops, raceRet>>

\* write(event), last step: publish the advanced write cursor
RingWritePublish ==
    /\ wPc = "publish"
    /\ rb_write' = wCur + 1
    /\ wPc' = "idle"
    /\ UNCHANGED <<rb_buf, rb_read, wCur, rPc, rFirst, raceOffered, raceDrops, raceLive,
                   raceRet>>

\* process: _in_rb.write(ev)
RaceProcessWrite ==
    /\ \/ RingWriteBegin
       \/ RingWriteStore
       \/ RingWritePublish
    /\ UNCHANGED <<bridgeVars, codecVars>>

\* input_event: past the wait for read_space(), _in_rb.read(ev)
RaceInputEvent ==
    /\ rPc = "idle"
    /\ RingReadSpace > 0
    /\ raceRet' = Append(raceRet, rb_buf[RingSlot(rb_read)])
    /\ raceLive' = raceLive \ {rb_buf[RingSlot(rb_read)]}
    /\ rb_read' = rb_read + 1
    /\ UNCHANGED <<bridgeVars, codecVars, rb_buf, rb_write, wPc, wCur, rPc, rFirst,
                   raceOffered, raceDrops>>

\* reset(), first store: one of the cursors; the buffered elements are
\* discarded
RingResetFirst ==
    /\ rPc = "idle"
    /\ raceOffered + raceDrops < MaxEvents
    /\ raceDrops' = raceDrops + 1
    /\ raceLive' = raceLive \ RingBuffered
    /\ \E c \in {"read", "write"} :
         /\ rFirst' = c
         /\ rb_read' = IF c = "read" THEN 0 ELSE rb_read
         /\ rb_write' = IF c = "write" THEN 0 ELSE rb_write
    /\ rPc' = "reset"
    /\ UNCHANGED <<rb_buf, wPc, wCur, raceOffered, raceRet>>

\* reset(), second store: the other cursor
RingResetSecond ==
    /\ rPc = "reset"
    /\ rb_read' = IF rFirst = "write" THEN 0 ELSE rb_read
    /\ rb_write' = IF rFirst = "read" THEN 0 ELSE rb_write
    /\ rPc' = "idle"
    /\ UNCHANGED <<rb_buf, wPc, wCur, rFirst, raceOffered, raceDrops, raceLive, raceRet>>

\* BackendJack::drop_input: _in_rb.reset(), whatever the callback is doing
RaceDropInput ==
    /\ \/ RingResetFirst
       \/ RingResetSecond
    /\ UNCHANGED <<bridgeVars, codecVars>>

RaceInit ==
    /\ BridgeInit
    /\ CodecIdle
    /\ RaceIdle

RaceNext ==
    \/ RaceProcessWrite
    \/ RaceInputEvent
    \/ RaceDropInput

RaceSpec == RaceInit /\ [][RaceNext]_vars

(***************************************************************************)
(* Properties of the bridge.                                               *)
(***************************************************************************)
\* the positions of the application thread inside input_event
IeStates == {"ie_check", "ie_lock", "ie_wait", "ie_blocked", "ie_wake", "ie_unlock",
             "ie_read"}

\* (block, port, index) a comes before b: block first, then port, then index
SrcBefore(a, b) ==
    \/ a[1] < b[1]
    \/ a[1] = b[1] /\ a[2] < b[2]
    \/ a[1] = b[1] /\ a[2] = b[2] /\ a[3] < b[3]

\* C1: as long as drop_input has discarded nothing, the events input_event
\* has returned and the events still buffered are the events the callback
\* stored, in the order stored: the buffered ones carry the write numbers
\* that follow the last returned one, without gap or repetition, up to the
\* last event stored; each is the decoding of the raw event at its place;
\* and the order is by block, then by input port, then by index in the
\* port's buffer.
C1_InboundFifoOrder ==
    dropMark = 0 =>
      /\ nWritten = ev.seq + Len(in_rb)
      /\ \A i \in 1 .. Len(in_rb) :
           /\ in_rb[i].seq = ev.seq + i
           /\ in_rb[i].ev = jack_to_midi_event(InputMsg(in_rb[i].src[2], in_rb[i].src[3]),
                                               in_rb[i].src[2])
           /\ i > 1 => SrcBefore(in_rb[i - 1].src, in_rb[i].src)
      /\ (ev.seq > 0 /\ Len(in_rb) > 0) => SrcBefore(ev.src, in_rb[1].src)

\* three events returned in order, the last one from a later block
C1_Witness ==
    /\ dropMark = 0
    /\ ev.seq = 3
    /\ ev.src[1] > 0
    /\ appPc = "idle"

\* C2: input_event reaches its read only with an event in the queue, also
\* after a wait that ended with no notify; what it returns is an event the
\* callback stored, and every event still to be returned is one that was
\* not returned before.
C2_NoPrematureReturn ==
    /\ appPc = "ie_read" => read_space(in_rb) > 0
    /\ ev.seq <= nWritten
    /\ \A i \in 1 .. Len(in_rb) :
         /\ in_rb[i].seq > ev.seq
         /\ in_rb[i].seq <= nWritten

\* the wait has ended while the queue is empty, after an earlier return
C2_Witness ==
    /\ appPc = "ie_unlock"
    /\ read_space(in_rb) = 0
    /\ ev.seq > 0

\* C3: whenever the application thread is inside input_event and the
\* inbound queue holds an event, input_event eventually returns (or the
\* process has died), with both threads scheduled fairly and whether or not
\* a later block carries input events.
C3_WakeupLiveness ==
    (appPc \in IeStates /\ read_space(in_rb) > 0) ~> (appPc = "idle" \/ rtPc = "crashed")

\* the steps of a callback invocation that has begun
ProcessStep ==
    \/ ProcessWrite
    \/ ProcessNotify
    \/ ProcessClear
    \/ ProcessDrain
    \/ ProcessReturn

\* C4: the callback never owns _mutex and is never at a wait; an invocation
\* that has begun can always take its next step, whoever owns the mutex and
\* wherever the application thread is.
C4_CallbackNeverWaits ==
    /\ mutex \in {"free", "app"}
    /\ rtPc \in {"idle", "in", "clear", "drain", "crashed"}
    /\ rtPc \in {"in", "clear", "drain"} => ENABLED ProcessStep

\* the callback is about to notify while the application thread owns the mutex
C4_Witness ==
    /\ rtPc = "in"
    /\ rtC = num_events[rtN]
    /\ num_events[rtN] # 0
    /\ mutex = "app"

\* a step of process that executes _in_rb.write
InWriteStep == rtPc = "in" /\ rtC' = rtC + 1
\* a step that executes output_event
OutWriteStep == Len(sent') = Len(sent) + 1
\* q is p with one element added at its end
Extends(p, q) == Len(q) = Len(p) + 1 /\ SubSeq(q, 1, Len(p)) = p

\* C5: neither queue ever holds more than MaxJackEvents events; a write into
\* a queue that holds MaxJackEvents events leaves the queue as it was, and a
\* write into a queue with room adds the event at the end, for the callback
\* writing _in_rb and for output_event writing _out_rb alike; output_event
\* can be executed whenever the application thread is between calls.
C5_DropNewestOnOverflow ==
    /\ [](/\ read_space(in_rb) <= MaxJackEvents
          /\ read_space(out_rb) <= MaxJackEvents
          /\ (Alive /\ appPc = "idle" /\ offered + Len(sent) + nDrops < MaxEvents)
               => ENABLED output_event)
    /\ [][/\ InWriteStep =>
               IF read_space(in_rb) = MaxJackEvents
               THEN in_rb' = in_rb /\ nWritten' = nWritten
               ELSE Extends(in_rb, in_rb') /\ nWritten' = nWritten + 1
          /\ OutWriteStep =>
               IF read_space(out_rb) = MaxJackEvents
               THEN out_rb' = out_rb /\ ~sent'[Len(sent')].accepted
               ELSE Extends(out_rb, out_rb') /\ sent'[Len(sent')].accepted]_vars

\* the callback has offered the inbound queue more events than it could
\* store; the first MaxJackEvents of them are buffered
C5_Witness ==
    /\ rtPc = "clear"
    /\ offered = MaxJackEvents + 1
    /\ nWritten = MaxJackEvents
    /\ read_space(in_rb) = MaxJackEvents
    /\ in_rb[1].seq = 1

\* C6: after a drop_input that ran with no callback running, and until the
\* callback stores a new event, the inbound queue is empty and input_event
\* does not reach its read; as long as no drop_input has run while the
\* callback was running, no event discarded by a drop_input is buffered or
\* returned afterwards; and a step of drop_input leaves the outbound
\* queue, the port buffers and the fate of the sent events as they were.
C6_DropInputEmpties ==
    /\ [](/\ freshDrop => (read_space(in_rb) = 0 /\ appPc # "ie_read")
          /\ ~dropRaced => \A i \in 1 .. Len(in_rb) : in_rb[i].seq > dropMark)
    /\ [][/\ (appPc = "ie_read" /\ appPc' = "idle" /\ ~dropRaced) => ev'.seq > dropMark
          /\ (dropMark' # dropMark \/ (~freshDrop /\ freshDrop'))
               => (out_rb' = out_rb /\ outBuf' = outBuf /\ sent' = sent)]_vars

\* events were discarded with the outbound queue holding an event, and a
\* later input_event is blocked
C6_Witness ==
    /\ freshDrop
    /\ ~dropRaced
    /\ dropMark > ev.seq
    /\ appPc = "ie_blocked"
    /\ read_space(out_rb) > 0

\* the encoding of the event of the i-th call of output_event (its length,
\* port and the bytes within the length do not depend on the stack bytes)
Encoded(i) == midi_event_to_jack(sent[i].ev, <<0, 0, 0>>)

\* C7: every event output_event stored whose encoding has a length is, once
\* the callback has taken it from the outbound queue, written exactly once
\* into the buffer of the output port its port field names, and until then
\* it is queued, unwritten, with no callback having returned since it was
\* enqueued; every entry of a port buffer is at offset 0, carries the
\* encoded bytes of an event sent to that port, was written by the first
\* callback after that event was enqueued, and follows the entries of
\* earlier calls; a buffer being filled holds entries of the current block
\* only.
C7_OutboundDelivery ==
    /\ \A i \in 1 .. Len(sent) :
         (sent[i].accepted /\ Encoded(i).len # 0) =>
           IF \E k \in 1 .. Len(out_rb) : out_rb[k].id = i
           THEN sent[i].writes = 0 /\ sent[i].enq = blk
           ELSE sent[i].writes = 1
    /\ \A p \in OutPortIdx : \A k \in 1 .. Len(outBuf[p]) :
         LET x == outBuf[p][k] IN
           /\ x.time = 0
           /\ sent[x.id].accepted
           /\ sent[x.id].ev.port = p
           /\ x.data = SubSeq(Encoded(x.id).data, 1, Encoded(x.id).len)
           /\ x.blk = sent[x.id].enq
           /\ rtPc = "drain" => x.blk = blk
           /\ k > 1 => outBuf[p][k - 1].id < x.id

\* C8: after a failed construction the client is neither open nor
\* activated.  (A constructor that throws is not followed by ~BackendJack,
\* so the state in which it failed is the state the bridge ends in.)
C8_FailedConstructionCloses ==
    ctorPc = "failed" => client \notin {"open", "active"}

\* the library calls of a construction that succeeds, in order
FullLog ==
    <<"open", "setcb">> \o [i \in 1 .. NumInPorts |-> "in"]
      \o [i \in 1 .. NumOutPorts |-> "out"] \o <<"activate">>

\* the BackendError of the step that failed
ErrorOf(step) ==
    CASE step = "open"     -> "can't connect to jack server"
      [] step = "in"       -> "error creating input port"
      [] step = "out"      -> "error creating output port"
      [] step = "activate" -> "can't activate client"
      [] OTHER             -> "no error"

AllRegistered ==
    /\ \A n \in InPortIdx : in_ports[n] # "NULL"
    /\ \A n \in OutPortIdx : out_ports[n] # "NULL"

\* C9: the library calls made so far are a prefix of open, set callback,
\* every input port, every output port, activate; a failed construction
\* carries the BackendError of the last call it made, every port registered
\* before that call has a handle, and no step of the constructor follows;
\* without a failure there is no error; the client is active only after
\* every call was made with the open and all registrations successful; and
\* the callback runs only with every port handle registered.
C9_FailFastOrdered ==
    /\ Len(ctorLog) <= Len(FullLog)
    /\ ctorLog = SubSeq(FullLog, 1, Len(ctorLog))
    /\ ctorPc = "failed" =>
         /\ Len(ctorLog) > 0
         /\ error = ErrorOf(ctorLog[Len(ctorLog)])
         /\ ~ENABLED Constructor
         /\ client # "active"
         /\ \A n \in InPortIdx : n + 3 < Len(ctorLog) => in_ports[n] # "NULL"
         /\ \A n \in OutPortIdx :
              n + 3 + NumInPorts < Len(ctorLog) => out_ports[n] # "NULL"
    /\ ctorPc # "failed" => error = "none"
    /\ client = "active" =>
         /\ ctorPc = "done"
         /\ ctorLog = FullLog
         /\ callbackSet
         /\ AllRegistered
    /\ rtPc # "idle" => AllRegistered

\* the registration of the second output port has failed
C9_Witness ==
    /\ ctorPc = "failed"
    /\ error = "error creating output port"
    /\ out_ports[0] = "port"
    /\ out_ports[1] = "NULL"

\* C10: for every event of type NoteOn, NoteOff, Control, PitchBend or
\* Program with its channel in 0..15 and its other fields in range,
\* jack_to_midi_event applied to the bytes
\* and the port midi_event_to_jack produced gives back the event: the same
\* type, port, channel and payload.
C10_CodecRoundTrip ==
    (cPc = "done" /\ cev.type # MIDI_EVENT_NONE /\ cev.channel \in 0 .. 15)
      => cdec = cev

\* the lowest pitch-bend value has gone through the codec
C10_Witness ==
    /\ cPc = "done"
    /\ cev.type = MIDI_EVENT_PITCHBEND
    /\ cev.ctrl.value = -8192
    /\ cev.channel = 15
    /\ cjack.data = <<239, 0, 0>>
    /\ cdec.ctrl.value = -8192

\* the status base of a type that is encoded
StatusBase(type) ==
    CASE type = MIDI_EVENT_NOTEON    -> 144
      [] type = MIDI_EVENT_NOTEOFF   -> 128
      [] type = MIDI_EVENT_CTRL      -> 176
      [] type = MIDI_EVENT_PITCHBEND -> 224
      [] type = MIDI_EVENT_PROGRAM   -> 192
      [] OTHER                       -> 0

\* C11: for every event whose encoding has a length, the status byte
\* midi_event_to_jack emits is base | (channel & 0x0F), base being 0x90,
\* 0x80, 0xB0, 0xE0, 0xC0 by type: its high nibble is the base of the type
\* and its low nibble is the low four bits of the channel.
C11_StatusByte ==
    (cPc \in {"decode", "done"} /\ cjack.len # 0) =>
      /\ cjack.data[1] = BitOr(StatusBase(cev.type), BitAnd(cev.channel, 15))
      /\ BitAnd(cjack.data[1], 240) = StatusBase(cev.type)
      /\ BitAnd(cjack.data[1], 15) = BitAnd(cev.channel, 15)

\* C12: for every pitch-bend value v in -8192..8191 the encoding has the
\* data bytes (v + 8192) mod 128 and (v + 8192) div 128, both in 0..127, and
\* decoding these bytes gives (data1 * 128 + data0) - 8192 with param 0;
\* -8192 is encoded as (0, 0), 0 as (0, 64), 8191 as (127, 127), and (0, 0)
\* is decoded to -8192, (127, 127) to 8191.
C12_PitchBendMapping ==
    (cev.type = MIDI_EVENT_PITCHBEND /\ cPc \in {"decode", "done"}) =>
      LET v == cev.ctrl.value
          d0 == cjack.data[2]
          d1 == cjack.data[3]
      IN  /\ cjack.len = 3
          /\ d0 = (v + 8192) % 128
          /\ d1 = (v + 8192) \div 128
          /\ d0 \in 0 .. 127 /\ d1 \in 0 .. 127
          /\ v = -8192 => <<d0, d1>> = <<0, 0>>
          /\ v = 0 => <<d0, d1>> = <<0, 64>>
          /\ v = 8191 => <<d0, d1>> = <<127, 127>>
          /\ cPc = "done" =>
               /\ cdec.type = MIDI_EVENT_PITCHBEND
               /\ cdec.ctrl.param = 0
               /\ cdec.ctrl.value = (d1 * 128 + d0) - 8192
               /\ <<d0, d1>> = <<0, 0>> => cdec.ctrl.value = -8192
               /\ <<d0, d1>> = <<127, 127>> => cdec.ctrl.value = 8191

\* the centre value has gone through the codec
C12_Witness ==
    /\ cPc = "done"
    /\ cev.type = MIDI_EVENT_PITCHBEND
    /\ cev.ctrl.value = 0
    /\ cjack.data[2] = 0
    /\ cjack.data[3] = 64
    /\ cdec.ctrl.value = 0

\* the status high nibbles jack_to_midi_event knows
KnownStatus == {128, 144, 176, 192, 224}

\* the raw message an element of the inbound queue was decoded from
RawOf(x) == InputMsg(x.src[2], x.src[3])

\* what C13 asks of an element decoded from an unsupported message
InertIn(x) ==
    BitAnd(RawOf(x)[1], 240) \notin KnownStatus => x.ev.type = MIDI_EVENT_NONE

\* C13: an event the callback decoded from a raw message whose status high
\* nibble is none of 0x80, 0x90, 0xB0, 0xC0, 0xE0 is of type None, and the
\* callback stored it like any other; an event of type None passed to
\* output_event is encoded with length 0 and is in no port buffer; the
\* callback, at such an event in its drain loop, can take its step, and the
\* step removes the event from the outbound queue, writes nothing and goes
\* on with the loop.
C13_UnsupportedInert ==
    /\ [](/\ \A i \in 1 .. Len(in_rb) : InertIn(in_rb[i])
          /\ ev.seq > 0 => InertIn(ev)
          /\ \A i \in 1 .. Len(sent) :
               sent[i].ev.type = MIDI_EVENT_NONE =>
                 /\ Encoded(i).len = 0
                 /\ sent[i].writes = 0
                 /\ \A p \in OutPortIdx : \A k \in 1 .. Len(outBuf[p]) :
                      outBuf[p][k].id # i
          /\ (rtPc = "drain" /\ read_space(out_rb) # 0
                /\ RbFront(out_rb).ev.type = MIDI_EVENT_NONE) => ENABLED ProcessDrain)
    /\ [][(/\ rtPc = "drain"
            /\ Len(out_rb') < Len(out_rb)
            /\ RbFront(out_rb).ev.type = MIDI_EVENT_NONE)
           => (/\ out_rb' = Tail(out_rb)
               /\ outBuf' = outBuf
               /\ rtPc' = "drain")]_vars

\* input_event has returned the event decoded from a 0xA0 message, and the
\* callback has drained an event of type None and returned
C13_Witness ==
    /\ ev.seq > 0
    /\ RawOf(ev)[1] = 160
    /\ ev.ev.type = MIDI_EVENT_NONE
    /\ rtPc = "idle"
    /\ out_rb = <<>>
    /\ \E i \in 1 .. Len(sent) : sent[i].accepted /\ sent[i].ev.type = MIDI_EVENT_NONE

\* a step that is the call of flush_output or its return
FlushStep == appPc' # appPc /\ (appPc = "flush" \/ appPc' = "flush")

\* C14: a call of flush_output can always return; its call and its return
\* leave the outbound queue, the inbound queue, the mutex of the wake signal
\* and every port buffer as they were; an event leaves the outbound queue,
\* and is written to a port buffer, only in a step of the callback's drain
\* loop.
C14_FlushOutputNoOp ==
    /\ []((Alive /\ appPc = "flush") => ENABLED FlushReturn)
    /\ [][/\ FlushStep =>
               (/\ out_rb' = out_rb
                /\ in_rb' = in_rb
                /\ mutex' = mutex
                /\ outBuf' = outBuf
                /\ sent' = sent)
          /\ (Len(out_rb') < Len(out_rb) \/ \E p \in OutPortIdx : Len(outBuf'[p]) > Len(outBuf[p]))
               => (rtPc = "drain" /\ appPc' = appPc)]_vars

\* flush_output is being executed with events waiting in both queues
C14_Witness ==
    /\ appPc = "flush"
    /\ rtPc = "idle"
    /\ read_space(out_rb) > 0
    /\ read_space(in_rb) > 0

\* C15: the encoding of a Program event has length 2 and its first data
\* byte is the value; the byte after it is not written (it is what the
\* caller's array held); the decoding of a message with status high nibble
\* 0xC0 has param 0 and the first data byte as its value, whatever the
\* third byte of the message holds.
C15_ProgramTwoBytes ==
    (cev.type = MIDI_EVENT_PROGRAM /\ cPc \in {"decode", "done"}) =>
      /\ cjack.len = 2
      /\ cjack.data[2] = cev.ctrl.value
      /\ \E s \in StackBytes : cjack.data[3] = s[3]
      /\ cPc = "done" =>
           /\ cdec.type = MIDI_EVENT_PROGRAM
           /\ cdec.ctrl = [param |-> 0, value |-> cjack.data[2]]
           /\ \A third \in {0, 1, 64, 127, 128, 255} :
                jack_to_midi_event(<<cjack.data[1], cjack.data[2], third>>, cjack.port)
                  = cdec

\* a program change was encoded into an array whose last byte held 255 and
\* was decoded again
C15_Witness ==
    /\ cPc = "done"
    /\ cev.type = MIDI_EVENT_PROGRAM
    /\ cev.ctrl.value = 127
    /\ cjack.data[3] = 255
    /\ cdec.ctrl.value = 127

\* the callback is through with input port n in this invocation
PortDone(n) ==
    \/ rtPc \in {"clear", "drain", "idle", "crashed"}
    \/ rtPc = "in" /\ n < rtN

\* C16: within one invocation, once the callback is through with an input
\* port, notify_one has been called for it exactly once if an event of the
\* port was stored in the inbound queue in this block, and not at all
\* otherwise (every event dropped by the full queue, or no event in the
\* port's buffer); before that, while the port's events are still being
\* written, it has not been called for the port.
C16_NotifyDiscipline ==
    \A n \in InPortIdx :
      IF PortDone(n)
      THEN notified[n] = (IF wrote[n] THEN 1 ELSE 0)
      ELSE notified[n] = 0

\* C17: with the realtime thread scheduled fairly, an invocation of the
\* callback that has begun reaches its return (or the process has died),
\* whatever the application thread does meanwhile.
C17_CallbackTerminates ==
    (rtPc \in {"in", "clear", "drain"}) ~> (rtPc \in {"idle", "crashed"})

\* C18: the callback never indexes _out_ports outside 0 .. NumOutPorts - 1:
\* it has not done so, and the event it is about to take from the outbound
\* queue, if its encoding has a length, names a port within the bounds.
C18_PortInBounds ==
    /\ ~oob
    /\ (rtPc = "drain" /\ read_space(out_rb) # 0) =>
         LET enc == midi_event_to_jack(RbFront(out_rb).ev, <<0, 0, 0>>)
         IN  enc.len # 0 => enc.port \in OutPortIdx

\* what C20 asks of an element x of the inbound queue, read from the buffer
\* of input port n with the raw status byte s
Tagged(x, n, s) ==
    /\ x.ev.port = n
    /\ x.ev.port \in InPortIdx
    /\ x.ev.channel = s % 16
    /\ x.ev.channel \in 0 .. 15

\* C20: for every raw status byte, the event the callback stores in the
\* inbound queue, and the event input_event returns, has the index of the
\* input port it was read from as its port and the low four bits of the
\* status byte as its channel.
C20_InboundTagged ==
    /\ \A i \in 1 .. Len(in_rb) : Tagged(in_rb[i], cjack.port, cjack.data[1])
    /\ cPc = "returned" => Tagged(ev, cjack.port, cjack.data[1])

\* a message with status byte 0xFF read from input port 1 has been returned
C20_Witness ==
    /\ cPc = "returned"
    /\ cjack.data[1] = 255
    /\ cjack.port = 1
    /\ ev.ev.channel = 15
    /\ ev.ev.port = 1

\* C19: with drop_input interleaved with a callback that is writing into
\* the inbound queue, read_space never exceeds the number of events written
\* and not yet read or discarded, and every event input_event returns is an
\* event the callback wrote, returned at most once and in write order.
C19_DropInputRaceHarmless ==
    /\ rPc = "idle" => RingReadSpace <= Cardinality(raceLive)
    /\ \A i \in 1 .. Len(raceRet) :
         /\ raceRet[i] \in 1 .. raceOffered
         /\ \A j \in 1 .. i - 1 : raceRet[j] < raceRet[i]

====
